---- MODULE Spec2Model ----
(***************************************************************************)
(* cast2gif: the asciinema cast sampler (cast_parser.rs) and the           *)
(* conversion pipeline (lib.rs).                                           *)
(*                                                                         *)
(* Time is counted in ticks of a recording's own unit (1, 0.05 or 0.3 s):  *)
(* the timestamps of its lines, the sampling interval and the times of the *)
(* frames are whole numbers of ticks.  The sampler's test dt >= interval    *)
(* and its floor(dt / interval) are computed on the f32 values of these     *)
(* numbers, as the source computes them; a filler frame's time is carried   *)
(* as the tick count t + i * interval, which the f32 sum of the source      *)
(* equals up to its rounding.                                               *)
(***************************************************************************)
EXTENDS Integers, Sequences, FiniteSets, TLC

(* ------------------------------ bounds -------------------------------- *)
\* most event lines after the header in a recording given to the sampler
MaxLines == 3
\* largest event timestamp, in ticks
MaxTime == 4
\* largest sampling interval, in ticks
MaxInterval == 2

(* --------------------------- the recording ---------------------------- *)
\* The unit of a recording's timestamps and interval, <<n, d>> for n/d of a
\* second: whole seconds, which f32 holds exactly, and 0.05 s and 0.3 s, which
\* it does not.
Second == <<1, 1>>
Ticks == { Second, <<1, 20>>, <<3, 10>> }

Payloads == {"A", "B"}
Versions == {1, 2, 3}

\* One line after the header, as the reader and serde_json see it:
\*   "ioerr"  lines.next() yields Err(e)
\*   "empty"  the line is ""
\*   "bad"    serde_json cannot parse it as (f32, String, String)
\*   "event"  it parses to AsciinemaFrameRaw(time, command, output)
\* The unsupported record is the one of the specification, [1.0,"x",...].
EventLines ==
    { [tag |-> "event", time |-> t, command |-> "o", output |-> p] :
        t \in 0..MaxTime, p \in Payloads }
    \cup
    { [tag |-> "event", time |-> 1, command |-> "x", output |-> "A"] }

OtherLines ==
    { [tag |-> k, time |-> 0, command |-> "", output |-> ""] :
        k \in {"ioerr", "empty", "bad"} }

Lines == EventLines \cup OtherLines

\* The first line of the source:
\*   "missing" the source is empty, "ioerr" reading it fails,
\*   "bad" it is no AsciinemaCastMeta, "meta" it parses, with this version
Headers ==
    { [tag |-> k, version |-> 0] : k \in {"missing", "ioerr", "bad"} }
    \cup
    { [tag |-> "meta", version |-> v] : v \in Versions }

SeqsUpTo(S, n) == UNION { [1..k -> S] : k \in 0..n }

\* A source whose header is accepted, with up to maxLines lines after it.
GoodHeader == [tag |-> "meta", version |-> 2]

\* A source with no first line has no later line either; a source whose
\* header is refused is never read further, so one later line stands for all.
LinesAfter(h, maxLines) ==
    CASE h = GoodHeader -> SeqsUpTo(Lines, maxLines)
      [] h.tag = "missing" -> { <<>> }
      [] OTHER -> SeqsUpTo(Lines, 1)

(* ------------------------- single precision -------------------------- *)
\* An f32 is zero, or sign * mant * 2^exp with 2^23 <= mant < 2^24.  The
\* operators below take their operands through a one-element set, which
\* binds each to its value once however often the body uses it.
F32Zero == [sign |-> 1, mant |-> 0, exp |-> 0]

\* the number of bits of the integer d, 0 < d < 2^30
BitLen(d) == CHOOSE n \in 1..30 : 2^(n - 1) <= d /\ d < 2^n

\* sign * d * 2^e, d an integer of n bits, rounded to 24 bits with ties to even
RoundBits(sign, d, n, e) ==
    IF n <= 24
    THEN [sign |-> sign, mant |-> d * 2^(24 - n), exp |-> e - (24 - n)]
    ELSE LET s == n - 24
             q == d \div 2^s
             r == d % 2^s
             half == 2^(s - 1)
             m == IF r > half \/ (r = half /\ q % 2 = 1) THEN q + 1 ELSE q
         IN  IF m = 2^24
             THEN [sign |-> sign, mant |-> 2^23, exp |-> e + s + 1]
             ELSE [sign |-> sign, mant |-> m, exp |-> e + s]

\* sign * d * 2^e rounded to the nearest f32, for 0 <= d < 2^30
F32Norm(sign, d, e) ==
    CHOOSE v \in { IF x = 0 THEN F32Zero
                   ELSE CHOOSE w \in { RoundBits(sign, x, n, e) :
                                         n \in {BitLen(x)} } : TRUE :
                   x \in {d} } : TRUE

\* floor(n * 2^28 / d), and the remainder that is left, for n < 2 * d and
\* d < 2^24: long division, seven bits at a time
Div28(n, d) ==
    LET r0 == n % d
        r1 == (128 * r0) % d
        r2 == (128 * r1) % d
        r3 == (128 * r2) % d
        q == ((((n \div d) * 128 + (128 * r0) \div d) * 128
                + (128 * r1) \div d) * 128
                + (128 * r2) \div d) * 128
                + (128 * r3) \div d
    IN  [q |-> q, r |-> (128 * r3) % d]

\* sign * (n / d) * 2^e rounded to the nearest f32, for 0 <= n < 2^24 and
\* 0 < d < 2^24: both are scaled to 24 bits and divided, and a remainder
\* is kept as a sticky lowest bit
F32Ratio(sign, n, d, e) ==
    IF n = 0 THEN F32Zero
    ELSE CHOOSE v \in
            { F32Norm(sign, 2 * b.q + (IF b.r # 0 THEN 1 ELSE 0),
                      e + BitLen(n) - BitLen(d) - 29) :
                b \in { Div28(x, y) : x \in {n * 2^(24 - BitLen(n))},
                                      y \in {d * 2^(24 - BitLen(d))} } } : TRUE

\* x shifted right by k bits, the bits shifted out kept as a sticky lowest bit
ShiftSticky(x, k) ==
    IF k > 30 THEN 1
    ELSE LET q == x \div 2^k
         IN  IF x % 2^k # 0 /\ q % 2 = 0 THEN q + 1 ELSE q

\* a - b for nonzero a and b of sign 1: the operand of the lesser exponent
\* is shifted to the other, with three more bits and a sticky one
SubAligned(a, b) ==
    IF a.exp >= b.exp
    THEN LET x == 8 * a.mant
             y == ShiftSticky(8 * b.mant, a.exp - b.exp)
         IN  IF x >= y THEN F32Norm(1, x - y, a.exp - 3)
             ELSE F32Norm(-1, y - x, a.exp - 3)
    ELSE LET x == ShiftSticky(8 * a.mant, b.exp - a.exp)
             y == 8 * b.mant
         IN  F32Norm(-1, y - x, b.exp - 3)

\* a - b in f32, for a >= 0 and b >= 0
F32Sub(a, b) ==
    CHOOSE v \in { IF y.mant = 0 THEN x
                   ELSE IF x.mant = 0 THEN [y EXCEPT !.sign = -1]
                   ELSE SubAligned(x, y) : x \in {a}, y \in {b} } : TRUE

\* a / b in f32, for a >= 0 and b > 0
F32Div(a, b) ==
    CHOOSE v \in { F32Ratio(1, x.mant, y.mant, x.exp - y.exp) :
                     x \in {a}, y \in {b} } : TRUE

\* a >= b, for b > 0
F32Ge(a, b) ==
    \E x \in {a}, y \in {b} :
        /\ x.sign = 1 /\ x.mant # 0
        /\ x.exp > y.exp \/ (x.exp = y.exp /\ x.mant >= y.mant)

\* a.floor() as i32, for a >= 0: the cast saturates
F32Floor(a) ==
    CHOOSE v \in { IF x.mant = 0 THEN 0
                   ELSE IF x.exp >= 8 THEN 2147483647
                   ELSE IF x.exp >= 0 THEN x.mant * 2^x.exp
                   ELSE IF x.exp < -24 THEN 0
                   ELSE x.mant \div 2^(-x.exp) : x \in {a} } : TRUE

\* the f32 that the decimal number of t ticks parses to
F32Of(t, tick) == F32Ratio(1, t * tick[1], tick[2], 0)

(* ----------------------------- the sampler ---------------------------- *)
\* Mutant of Process: the payload replaces what the screen showed.
Process_Overwrite(screen, output) == << output >>

\* vt100::Parser::process: printable text is written at the cursor, so the
\* screen is what was processed so far; its size is read off it by `size`.
Process(screen, output) == Append(screen, output)

TerminalFrame(index, time, screen) ==
    [index |-> index, time |-> time, screen |-> screen]

NoFrame == TerminalFrame(0, 0, <<>>)

\* What Iterator::next returns: None, Some(Ok(frame)) or Some(Err(e)); an
\* error carries the number of the line its message quotes (0: none).
ItemNone == [kind |-> "None", frame |-> NoFrame, err |-> "", line |-> 0]
ItemOk(f) == [kind |-> "Ok", frame |-> f, err |-> "", line |-> 0]
ItemErr(e, l) == [kind |-> "Err", frame |-> NoFrame, err |-> e, line |-> l]

\* The fields of TerminalFrameIter; pos counts the lines taken from `lines`,
\* tick is the unit in which interval, last_frame_time and the times of the
\* lines and frames are counted.
SamplerInit(interval, tick) ==
    [next_index |-> 0, last_frame_time |-> 0, interval |-> interval,
     screen |-> <<>>, next_frames |-> <<>>, pos |-> 0, tick |-> tick]

\* Mutant of SamplerNew: the version gate lets older versions through.
SamplerNew_OldVersions(header, interval) ==
    CASE header.tag = "missing" -> "GenericParserError"
      [] header.tag = "ioerr" -> "IoError"
      [] header.tag = "bad" -> "ParseError"
      [] OTHER -> IF header.version > 2 THEN "InvalidVersion" ELSE "Ok"

\* TerminalFrameIter::new
SamplerNew(header, interval) ==
    CASE header.tag = "missing" -> "GenericParserError"
      [] header.tag = "ioerr" -> "IoError"
      [] header.tag = "bad" -> "ParseError"
      [] OTHER -> IF header.version # 2 THEN "InvalidVersion" ELSE "Ok"

\* Mutant of FillerFrames: the loop runs once too often.
FillerFrames_OneMore(st, current_index, time, screen, reps) ==
    [i \in 1..reps |->
        TerminalFrame(current_index + i, time + i * st.interval, screen)]

\* for i in 0..floor(dt / interval): the frames pushed to next_frames, i >= 1
FillerFrames(st, current_index, time, screen, reps) ==
    [i \in 1..(reps - 1) |->
        TerminalFrame(current_index + i, time + i * st.interval, screen)]

\* What lines 182-193 compute from the last frame time l and the record's
\* time t of a recording sampled every i ticks of unit u:
\* ge is `frame_time_diff >= self.interval` (line 186), reps is
\* `(frame_time_diff / self.interval).floor() as i32` (line 193), in f32;
\* tabulated once for the timestamps and intervals of the recordings.
FrameTimeDiffs ==
    [u \in Ticks, i \in 1..MaxInterval, l \in 0..MaxTime, t \in 0..MaxTime |->
        LET frame_time_diff == F32Sub(F32Of(t, u), F32Of(l, u))
            interval == F32Of(i, u)
        IN  [ge |-> F32Ge(frame_time_diff, interval),
             reps |-> F32Floor(F32Div(frame_time_diff, interval))]]

\* Mutant of ProcessEvent: the record that ends a gap shorter than the
\* interval is kept instead of discarded.
ProcessEvent_KeepShort(st, line) ==
    LET screen == Process(st.screen, line.output)
        current_index == st.next_index
        st1 == [st EXCEPT !.screen = screen, !.next_index = @ + 1]
    IN  [st |-> [st1 EXCEPT !.last_frame_time = line.time],
         item |-> ItemOk(TerminalFrame(current_index, line.time, screen)),
         again |-> FALSE]

\* One "o" record: lines 175-226.
ProcessEvent(st, line) ==
    LET screen == Process(st.screen, line.output)
        current_index == st.next_index
        st1 == [st EXCEPT !.screen = screen, !.next_index = @ + 1]
        f == FrameTimeDiffs[st.tick, st.interval, st.last_frame_time, line.time]
    IN  IF f.ge
        THEN [st |-> [st1 EXCEPT
                        !.last_frame_time = line.time,
                        !.next_frames = st.next_frames \o
                            FillerFrames(st, current_index, line.time, screen, f.reps)],
              item |-> ItemOk(TerminalFrame(current_index, line.time, screen)),
              again |-> FALSE]
        ELSE [st |-> st1, item |-> ItemNone, again |-> TRUE]

\* Mutant of ReadLine: the record is fed to the emulator and takes an index
\* before its kind is looked at.
ReadLine_ProcessFirst(st, lines) ==
    IF st.pos >= Len(lines)
    THEN [st |-> st, item |-> ItemNone, again |-> FALSE]
    ELSE LET line == lines[st.pos + 1]
             st1 == [st EXCEPT !.pos = @ + 1]
         IN  CASE line.tag = "ioerr" ->
                    [st |-> st1, item |-> ItemErr("IoError", 0), again |-> FALSE]
               [] line.tag = "empty" ->
                    [st |-> st1, item |-> ItemNone, again |-> TRUE]
               [] line.tag = "bad" ->
                    [st |-> st1, item |-> ItemErr("ParseFrame", st1.pos),
                     again |-> FALSE]
               [] OTHER ->
                    IF line.command # "o"
                    THEN [st |-> [st1 EXCEPT !.screen = Process(@, line.output),
                                             !.next_index = @ + 1],
                          item |-> ItemErr("UnsupportedCommand", st1.pos),
                          again |-> FALSE]
                    ELSE ProcessEvent(st1, line)

\* Mutant of ReadLine: an empty line takes an index.
ReadLine_EmptyTakesIndex(st, lines) ==
    IF st.pos >= Len(lines)
    THEN [st |-> st, item |-> ItemNone, again |-> FALSE]
    ELSE LET line == lines[st.pos + 1]
             st1 == [st EXCEPT !.pos = @ + 1]
         IN  CASE line.tag = "ioerr" ->
                    [st |-> st1, item |-> ItemErr("IoError", 0), again |-> FALSE]
               [] line.tag = "empty" ->
                    [st |-> [st1 EXCEPT !.next_index = @ + 1],
                     item |-> ItemNone, again |-> TRUE]
               [] line.tag = "bad" ->
                    [st |-> st1, item |-> ItemErr("ParseFrame", st1.pos),
                     again |-> FALSE]
               [] OTHER ->
                    IF line.command # "o"
                    THEN [st |-> st1, item |-> ItemErr("UnsupportedCommand", st1.pos),
                          again |-> FALSE]
                    ELSE ProcessEvent(st1, line)

\* Mutant of ReadLine: the end of the lines is reported as a read error.
ReadLine_EofError(st, lines) ==
    IF st.pos >= Len(lines)
    THEN [st |-> st, item |-> ItemErr("IoError", 0), again |-> FALSE]
    ELSE [st |-> [st EXCEPT !.pos = @ + 1], item |-> ItemNone, again |-> TRUE]

\* One pass of the loop of next(): take a line and handle it; again = the
\* code reaches `continue`.
ReadLine(st, lines) ==
    IF st.pos >= Len(lines)
    THEN [st |-> st, item |-> ItemNone, again |-> FALSE]
    ELSE LET line == lines[st.pos + 1]
             st1 == [st EXCEPT !.pos = @ + 1]
         IN  CASE line.tag = "ioerr" ->
                    [st |-> st1, item |-> ItemErr("IoError", 0), again |-> FALSE]
               [] line.tag = "empty" ->
                    [st |-> st1, item |-> ItemNone, again |-> TRUE]
               [] line.tag = "bad" ->
                    [st |-> st1, item |-> ItemErr("ParseFrame", st1.pos),
                     again |-> FALSE]
               [] OTHER ->
                    IF line.command # "o"
                    THEN [st |-> st1, item |-> ItemErr("UnsupportedCommand", st1.pos),
                          again |-> FALSE]
                    ELSE ProcessEvent(st1, line)

RECURSIVE ReadLoop(_, _)
ReadLoop(st, lines) ==
    LET r == ReadLine(st, lines)
    IN  IF r.again THEN ReadLoop(r.st, lines) ELSE [st |-> r.st, item |-> r.item]

\* Mutant of PopFrame: the pop empties the queue.
PopFrame_Clear(st) ==
    LET n == Len(st.next_frames)
    IN  [st |-> [st EXCEPT !.next_frames = <<>>,
                           !.next_index = @ + 1],
         item |-> ItemOk(st.next_frames[n])]

\* next_frames.pop(): the last element of the Vec
PopFrame(st) ==
    LET n == Len(st.next_frames)
    IN  [st |-> [st EXCEPT !.next_frames = SubSeq(@, 1, n - 1),
                           !.next_index = @ + 1],
         item |-> ItemOk(st.next_frames[n])]

\* TerminalFrameIter::next
SamplerNext(st, lines) ==
    IF st.next_frames # <<>> THEN PopFrame(st) ELSE ReadLoop(st, lines)

(* --------------------------- the pipeline ----------------------------- *)
\* CastRenderProgress::default()
NoProgress == [count |-> 0, raster_progress |-> 0, sequence_progress |-> 0]

\* Mutant of ApplyCmd: a sequenced frame is also counted as rasterized.
ApplyCmd_Merged(progress, cmd) ==
    CASE cmd = "IncrementCount" -> [progress EXCEPT !.count = @ + 1]
      [] cmd = "IncrementRasterProgress" ->
            [progress EXCEPT !.raster_progress = @ + 1]
      [] OTHER -> [progress EXCEPT !.sequence_progress = @ + 1,
                                   !.raster_progress = @ + 1]

\* the match of progress_thread
ApplyCmd(progress, cmd) ==
    CASE cmd = "IncrementCount" -> [progress EXCEPT !.count = @ + 1]
      [] cmd = "IncrementRasterProgress" ->
            [progress EXCEPT !.raster_progress = @ + 1]
      [] OTHER -> [progress EXCEPT !.sequence_progress = @ + 1]

\* Mutant of BufferIndex: the scan takes the first buffered frame, whatever
\* its index.
BufferIndex_First(buffer, current_frame) ==
    IF buffer = <<>> THEN 0 ELSE 1

\* OrderedFrameIter::next, the scan of the buffer: the position of the first
\* buffered frame whose index is current_frame, 0 if there is none
BufferIndex(buffer, current_frame) ==
    LET hits == { i \in 1..Len(buffer) : buffer[i].index = current_frame }
    IN  IF hits = {} THEN 0
        ELSE CHOOSE i \in hits : \A j \in hits : i <= j

\* Vec::remove(i)
Remove(buffer, i) ==
    SubSeq(buffer, 1, i - 1) \o SubSeq(buffer, i + 1, Len(buffer))

\* Mutant of IsNextFrame: a pulled frame is passed on when its index is not
\* behind the wanted one.
IsNextFrame_NotBehind(frame, current_frame) == frame.index >= current_frame

\* OrderedFrameIter::next, the test of a pulled frame
IsNextFrame(frame, current_frame) == frame.index = current_frame

(* ------------------------------ state --------------------------------- *)
VARIABLES
    src,        \* the recording and the interval the job was given; wide: the
                \* terminal of its header makes an image too large for a GIF
    newResult,  \* "unbuilt", or what TerminalFrameIter::new returned
    smp,        \* the TerminalFrameIter
    emitted,    \* what next() has returned so far, each with the lines read by then
    done,       \* next() has returned None
    pool,       \* the number of worker threads of the rayon pool
    poolInitialized, \* THREAD_POOL_INITIALIZED
    globalPool, \* rayon's global pool has been built
    cfg,        \* where each call of this process is in configure_thread_pool
    callerPc,   \* where the thread that called convert_to_gif_with_progress is
    result,     \* what the call came to: "running", "Ok", "ImageError",
                \* "IoError", "panic"
    progPc,     \* the progress_thread task: "none", "queued", "running", "done"
    progChan,   \* the progress channel
    progress,   \* progress_thread's CastRenderProgress
    observed,   \* the progress the handler was last called with
    dispPc,     \* the png_raster_thread task
    curFrame,   \* the frame png_raster_thread holds between pulling and spawning
    tasks,      \* the rendering tasks spawned so far, in spawn order
    frameChan,  \* the channel of rendered frames
    sent,       \* every frame sent on that channel so far, in the order sent
    firstFrame, \* sequence_gif's first_frame, until the chain hands it on
    buffer,     \* OrderedFrameIter.buffer
    currentFrame, \* OrderedFrameIter.current_frame
    written     \* the frames given to encoder.write_frame, in order

samplerVars == <<src, newResult, smp, emitted, done>>
poolVars == <<pool, poolInitialized, globalPool, cfg>>
callerVars == <<callerPc, result>>
progVars == <<progPc, progress, observed>>
dispVars == <<dispPc, curFrame, tasks>>
seqVars == <<firstFrame, buffer, currentFrame, written>>
vars == <<samplerVars, poolVars, callerVars, progVars, progChan, dispVars,
          frameChan, sent, seqVars>>

\* the pipeline before convert_to_gif_with_progress is called
PipelineIdle ==
    /\ callerPc = "idle" /\ result = "running"
    /\ progPc = "none" /\ progChan = <<>>
    /\ progress = NoProgress /\ observed = NoProgress
    /\ dispPc = "none" /\ curFrame = NoFrame /\ tasks = <<>>
    /\ frameChan = <<>> /\ sent = <<>>
    /\ firstFrame = <<>> /\ buffer = <<>> /\ currentFrame = 0 /\ written = <<>>

(* --------------------------- the renderer ----------------------------- *)
\* Output after which the emulator's screen has more rows or columns, so
\* many that an image of it is wider or higher than 65535 pixels.
Oversize == "W"

\* frame.screen.size() and the image made for it (fontkit.rs 42, 76-77): the
\* screen has the size the header gave the emulator, or the one a later
\* output gave it; TRUE when the image is too large for try_to_u16.
size(screen) ==
    src.wide \/ \E k \in 1..Len(screen) : screen[k] = Oversize

\* RgbaFrame: render_frame_to_png copies index and time of the TerminalFrame;
\* of the pixels the pipeline looks at the width and the height only.
RgbaFrame(index, time, wide) == [index |-> index, time |-> time, wide |-> wide]

\* Mutant of render_frame_to_png: the image is numbered 0 whatever the frame.
render_frame_to_png_Unnumbered(frame) ==
    RgbaFrame(0, frame.time, size(frame.screen))

render_frame_to_png(frame) ==
    RgbaFrame(frame.index, frame.time, size(frame.screen))

(* ------------------- the sampler run on its own ----------------------- *)
SamplerSpecInit ==
    /\ \E h \in Headers, i \in 1..MaxInterval, u \in Ticks, w \in { FALSE } :
          \E ls \in LinesAfter(h, MaxLines) :
             src = [header |-> h, lines |-> ls, interval |-> i, tick |-> u,
                    wide |-> w]
    /\ newResult = "unbuilt"
    /\ smp = SamplerInit(src.interval, src.tick)
    /\ emitted = <<>>
    /\ done = FALSE
    /\ pool = 1
    /\ poolInitialized = FALSE /\ globalPool = FALSE /\ cfg = <<>>
    /\ PipelineIdle

Construct ==
    /\ callerPc = "idle"
    /\ newResult = "unbuilt"
    /\ newResult' = SamplerNew(src.header, src.interval)
    /\ UNCHANGED <<src, smp, emitted, done, poolVars, callerVars, progVars,
                   progChan, dispVars, frameChan, sent, seqVars>>

CallNext ==
    /\ callerPc = "idle"
    /\ newResult = "Ok"
    /\ ~done
    /\ LET r == SamplerNext(smp, src.lines)
       IN  /\ smp' = r.st
           /\ emitted' = Append(emitted, [item |-> r.item, pos |-> r.st.pos])
           /\ done' = (r.item.kind = "None")
    /\ UNCHANGED <<src, newResult, poolVars, callerVars, progVars, progChan,
                   dispVars, frameChan, sent, seqVars>>

SamplerSpecNext == Construct \/ CallNext

SamplerSpec == SamplerSpecInit /\ [][SamplerSpecNext]_vars

(* ------------------------ the conversion job -------------------------- *)
\* most lines after the header in a recording given to a conversion job
MaxJobLines == 2
\* largest event timestamp of such a recording, in ticks
MaxJobTime == 2
\* most worker threads of the pool
MaxPool == 3
\* most rendering tasks whose rendering backend fails in one job
MaxRenderFailures == 1

\* The job's recordings print one payload, or enlarge the screen: its size is
\* all the pipeline looks at in a screen.
JobLines ==
    { [tag |-> "event", time |-> t, command |-> "o", output |-> p] :
        t \in 0..MaxJobTime, p \in {"A", Oversize} }
    \cup { [tag |-> "event", time |-> 1, command |-> "x", output |-> "A"] }
    \cup OtherLines

JobLinesAfter(h) ==
    CASE h = GoodHeader -> SeqsUpTo(JobLines, MaxJobLines)
      [] OTHER -> { <<>> }

\* the tasks that hold a worker thread
Busy ==
    (IF progPc = "running" THEN 1 ELSE 0)
    + (IF dispPc \in {"pull", "spawn"} THEN 1 ELSE 0)
    + Cardinality({ i \in 1..Len(tasks) : tasks[i].pc = "sent" })

LiveTasks == { i \in 1..Len(tasks) : tasks[i].pc \in {"queued", "sent"} }

\* Mutant of FrameSendersAlive: the sender of a task whose rendering panicked
\* is never dropped.
FrameSendersAlive_Leak ==
    \/ callerPc \in {"start", "new"}
    \/ dispPc \in {"queued", "pull", "spawn"}
    \/ { i \in 1..Len(tasks) :
            tasks[i].pc \in {"queued", "sent", "render_panicked"} } # {}

\* some clone of raster_sender has not been dropped
FrameSendersAlive ==
    \/ callerPc \in {"start", "new"}
    \/ dispPc \in {"queued", "pull", "spawn"}
    \/ LiveTasks # {}

\* raster_receiver has not been dropped: the call is neither over nor unwinding
FrameReceiverAlive == callerPc \in {"start", "new", "recv_first", "loop"}

\* some clone of progress_sender has not been dropped
ProgressSendersAlive ==
    \/ callerPc \in {"new", "recv_first", "loop"}
    \/ dispPc \in {"queued", "pull", "spawn"}
    \/ LiveTasks # {}

RenderFailures ==
    Cardinality({ i \in 1..Len(tasks) : tasks[i].pc = "render_panicked" })

Init ==
    /\ \E h \in Headers, i \in 1..MaxInterval, u \in { Second }, w \in BOOLEAN :
          \E ls \in JobLinesAfter(h) :
             src = [header |-> h, lines |-> ls, interval |-> i, tick |-> u,
                    wide |-> w]
    /\ newResult = "unbuilt"
    /\ smp = SamplerInit(src.interval, src.tick)
    /\ emitted = <<>>
    /\ done = FALSE
    /\ pool \in 1..MaxPool
    /\ poolInitialized = FALSE /\ globalPool = FALSE /\ cfg = <<"call">>
    /\ callerPc = "start" /\ result = "running"
    /\ progPc = "none" /\ progChan = <<>>
    /\ progress = NoProgress /\ observed = NoProgress
    /\ dispPc = "none" /\ curFrame = NoFrame /\ tasks = <<>>
    /\ frameChan = <<>> /\ sent = <<>>
    /\ firstFrame = <<>> /\ buffer = <<>> /\ currentFrame = 0 /\ written = <<>>

\* configure_thread_pool, line 67, in call c: the flag is loaded
configure_load(c) ==
    /\ cfg[c] = "call"
    /\ cfg' = [cfg EXCEPT ![c] = IF poolInitialized THEN "done" ELSE "build"]
    /\ UNCHANGED <<samplerVars, pool, poolInitialized, globalPool, callerVars,
                   progVars, progChan, dispVars, frameChan, sent, seqVars>>

\* rayon's ThreadPoolBuilder::build_global, line 78: an error once the global
\* pool exists
BuildGlobal(built) == IF built THEN "Err" ELSE "Ok"

\* lines 69-79: build_global().expect(..)
configure_build(c) ==
    /\ cfg[c] = "build"
    /\ IF BuildGlobal(globalPool) = "Ok"
       THEN globalPool' = TRUE /\ cfg' = [cfg EXCEPT ![c] = "store"]
       ELSE cfg' = [cfg EXCEPT ![c] = "panicked"] /\ UNCHANGED globalPool
    /\ UNCHANGED <<samplerVars, pool, poolInitialized, callerVars, progVars,
                   progChan, dispVars, frameChan, sent, seqVars>>

\* line 82: THREAD_POOL_INITIALIZED.store(false, SeqCst)
configure_store(c) ==
    /\ cfg[c] = "store"
    /\ poolInitialized' = FALSE
    /\ cfg' = [cfg EXCEPT ![c] = "done"]
    /\ UNCHANGED <<samplerVars, pool, globalPool, callerVars, progVars,
                   progChan, dispVars, frameChan, sent, seqVars>>

\* convert_to_gif_with_progress, lines 281-286, once configure_thread_pool
\* has returned: the channels, and the progress task handed to the pool
convert_start ==
    /\ callerPc = "start"
    /\ cfg[1] = "done"
    /\ callerPc' = "new"
    /\ progPc' = "queued"
    /\ UNCHANGED <<samplerVars, poolVars, result, progress, observed, progChan,
                   dispVars, frameChan, sent, seqVars>>

\* lines 289-293: TerminalFrameIter::new(..).expect(..), then the dispatcher
\* handed to the pool; the unwinding of a panic drops both channels' ends
convert_new ==
    /\ callerPc = "new"
    /\ newResult' = SamplerNew(src.header, src.interval)
    /\ IF newResult' = "Ok"
       THEN /\ callerPc' = "recv_first"
            /\ dispPc' = "queued"
            /\ UNCHANGED result
       ELSE /\ callerPc' = "panicked"
            /\ result' = "panic"
            /\ UNCHANGED dispPc
    /\ UNCHANGED <<src, smp, emitted, done, poolVars, progVars, progChan,
                   curFrame, tasks, frameChan, sent, seqVars>>

\* a worker thread takes up progress_thread
progress_thread_start ==
    /\ progPc = "queued"
    /\ Busy < pool
    /\ progPc' = "running"
    /\ UNCHANGED <<samplerVars, poolVars, callerVars, progress, observed, progChan,
                   dispVars, frameChan, sent, seqVars>>

\* progress_thread, one turn of its loop: a command is applied and the
\* handler is called with the result
progress_thread_step ==
    /\ progPc = "running"
    /\ progChan # <<>>
    /\ progress' = ApplyCmd(progress, Head(progChan))
    /\ observed' = progress'
    /\ progChan' = Tail(progChan)
    /\ UNCHANGED <<samplerVars, poolVars, callerVars, progPc, dispVars, frameChan, sent,
                   seqVars>>

\* Mutant of progress_thread_done: the loop ends as soon as the channel is
\* found empty.
progress_thread_done_OnEmpty ==
    /\ progPc = "running"
    /\ progChan = <<>>
    /\ progPc' = "done"
    /\ UNCHANGED <<samplerVars, poolVars, callerVars, progress, observed, progChan,
                   dispVars, frameChan, sent, seqVars>>

\* progress_thread, the end of its loop: the channel is empty and every
\* sender is dropped
progress_thread_done ==
    /\ progPc = "running"
    /\ progChan = <<>>
    /\ ~ProgressSendersAlive
    /\ progPc' = "done"
    /\ UNCHANGED <<samplerVars, poolVars, callerVars, progress, observed, progChan,
                   dispVars, frameChan, sent, seqVars>>

\* a worker thread takes up png_raster_thread; both jobs come through the
\* pool's first-in first-out injector, progress_thread first
png_raster_thread_start ==
    /\ dispPc = "queued"
    /\ progPc # "queued"
    /\ Busy < pool
    /\ dispPc' = "pull"
    /\ UNCHANGED <<samplerVars, poolVars, callerVars, progVars, progChan, curFrame,
                   tasks, frameChan, sent, seqVars>>

\* Mutant of png_raster_thread_pull: no count command is sent for the frame.
png_raster_thread_pull_NoCount ==
    /\ dispPc = "pull"
    /\ LET r == SamplerNext(smp, src.lines)
       IN  /\ smp' = r.st
           /\ CASE r.item.kind = "None" ->
                     /\ dispPc' = "done"
                     /\ UNCHANGED <<curFrame, progChan>>
                [] r.item.kind = "Err" ->
                     /\ dispPc' = "panicked"
                     /\ UNCHANGED <<curFrame, progChan>>
                [] OTHER ->
                     /\ dispPc' = "spawn"
                     /\ curFrame' = r.item.frame
                     /\ UNCHANGED progChan
    /\ UNCHANGED <<src, newResult, emitted, done, poolVars, callerVars, progVars,
                   tasks, frameChan, sent, seqVars>>

\* png_raster_thread, lines 112-119: the next frame is pulled and unwrapped,
\* and the count command is sent
png_raster_thread_pull ==
    /\ dispPc = "pull"
    /\ LET r == SamplerNext(smp, src.lines)
       IN  /\ smp' = r.st
           /\ CASE r.item.kind = "None" ->
                     /\ dispPc' = "done"
                     /\ UNCHANGED <<curFrame, progChan>>
                [] r.item.kind = "Err" ->
                     /\ dispPc' = "panicked"
                     /\ UNCHANGED <<curFrame, progChan>>
                [] OTHER ->
                     IF progPc = "done"
                     THEN /\ dispPc' = "panicked"
                          /\ UNCHANGED <<curFrame, progChan>>
                     ELSE /\ dispPc' = "spawn"
                          /\ curFrame' = r.item.frame
                          /\ progChan' = Append(progChan, "IncrementCount")
    /\ UNCHANGED <<src, newResult, emitted, done, poolVars, callerVars, progVars,
                   tasks, frameChan, sent, seqVars>>

\* Mutant of png_raster_thread_spawn: the dispatcher hands over a task only
\* once the tasks before it have ended.
png_raster_thread_spawn_Wait ==
    /\ dispPc = "spawn"
    /\ LiveTasks = {}
    /\ tasks' = Append(tasks, [frame |-> curFrame, pc |-> "queued"])
    /\ curFrame' = NoFrame
    /\ dispPc' = "pull"
    /\ UNCHANGED <<samplerVars, poolVars, callerVars, progVars, progChan,
                   frameChan, sent, seqVars>>

\* png_raster_thread, lines 122-128: the rendering task is handed to the pool
png_raster_thread_spawn ==
    /\ dispPc = "spawn"
    /\ tasks' = Append(tasks, [frame |-> curFrame, pc |-> "queued"])
    /\ curFrame' = NoFrame
    /\ dispPc' = "pull"
    /\ UNCHANGED <<samplerVars, poolVars, callerVars, progVars, progChan,
                   frameChan, sent, seqVars>>

\* a rendering task, lines 125-126: a worker thread takes it up, renders the
\* frame and sends the image; the send fails once the receiver is dropped
render_task_send(i) ==
    /\ tasks[i].pc = "queued"
    /\ Busy < pool
    /\ IF FrameReceiverAlive
       THEN /\ frameChan' = Append(frameChan, render_frame_to_png(tasks[i].frame))
            /\ sent' = Append(sent, render_frame_to_png(tasks[i].frame))
            /\ tasks' = [tasks EXCEPT ![i].pc = "sent"]
       ELSE /\ tasks' = [tasks EXCEPT ![i].pc = "send_panicked"]
            /\ UNCHANGED <<frameChan, sent>>
    /\ UNCHANGED <<samplerVars, poolVars, callerVars, progVars, progChan, dispPc,
                   curFrame, seqVars>>

\* a rendering task whose backend fails: render_frame_to_png panics
render_task_fail(i) ==
    /\ tasks[i].pc = "queued"
    /\ Busy < pool
    /\ RenderFailures < MaxRenderFailures
    /\ tasks' = [tasks EXCEPT ![i].pc = "render_panicked"]
    /\ UNCHANGED <<samplerVars, poolVars, callerVars, progVars, progChan, dispPc,
                   curFrame, frameChan, sent, seqVars>>

\* Mutant of render_task_progress: the rasterized command is sent before the
\* image, by a task that has not rendered yet.
render_task_progress_Early(i) ==
    /\ tasks[i].pc = "queued"
    /\ progPc # "done"
    /\ progChan' = Append(progChan, "IncrementRasterProgress")
    /\ UNCHANGED <<samplerVars, poolVars, callerVars, progVars, dispVars,
                   frameChan, sent, seqVars>>

\* Mutant of render_task_progress: the task adds to the rasterized counter
\* itself and sends nothing.
render_task_progress_Direct(i) ==
    /\ tasks[i].pc = "sent"
    /\ tasks' = [tasks EXCEPT ![i].pc = "done"]
    /\ progress' = [progress EXCEPT !.raster_progress = @ + 1]
    /\ UNCHANGED <<samplerVars, poolVars, callerVars, progPc, observed, progChan,
                   dispPc, curFrame, frameChan, sent, seqVars>>

\* a rendering task, line 127: the rasterized command is sent
render_task_progress(i) ==
    /\ tasks[i].pc = "sent"
    /\ IF progPc = "done"
       THEN /\ tasks' = [tasks EXCEPT ![i].pc = "send_panicked"]
            /\ UNCHANGED progChan
       ELSE /\ tasks' = [tasks EXCEPT ![i].pc = "done"]
            /\ progChan' = Append(progChan, "IncrementRasterProgress")
    /\ UNCHANGED <<samplerVars, poolVars, callerVars, progVars, dispPc, curFrame,
                   frameChan, sent, seqVars>>

\* try_to_u16, lines 211-214, on the width and the height of an image
try_to_u16(wide) == IF wide THEN "ImageError" ELSE "Ok"

\* What a write of the encoder can come to.  The writer is the caller's,
\* behind the BufWriter of line 296: whether and when it fails is not the
\* program's to decide.
WriteOutcomes == {"Ok", "IoError"}

\* Mutant of sequence_gif_first: the first frame is used for the dimensions
\* and not handed on to the iterator.
sequence_gif_first_Lost ==
    /\ callerPc = "recv_first"
    /\ IF frameChan # <<>>
       THEN /\ frameChan' = Tail(frameChan)
            /\ \E w \in WriteOutcomes :
                  LET r == IF try_to_u16(Head(frameChan).wide) # "Ok"
                           THEN try_to_u16(Head(frameChan).wide) ELSE w
                  IN  IF r = "Ok"
                      THEN /\ firstFrame' = <<>>
                           /\ callerPc' = "loop"
                           /\ UNCHANGED result
                      ELSE /\ callerPc' = "failed"
                           /\ result' = r
                           /\ UNCHANGED firstFrame
       ELSE /\ ~FrameSendersAlive
            /\ callerPc' = "panicked"
            /\ result' = "panic"
            /\ UNCHANGED <<firstFrame, frameChan, sent>>
    /\ UNCHANGED <<samplerVars, poolVars, progVars, progChan, dispVars, sent,
                   buffer, currentFrame, written>>

\* sequence_gif, lines 203-226: the first frame is received, or the channel
\* is found empty and closed and the expect panics; with the frame, the
\* encoder is made for its dimensions and writes the header of the GIF, and
\* the first `?` that meets an Err returns it
sequence_gif_first ==
    /\ callerPc = "recv_first"
    /\ IF frameChan # <<>>
       THEN /\ frameChan' = Tail(frameChan)
            /\ \E w \in WriteOutcomes :
                  LET r == IF try_to_u16(Head(frameChan).wide) # "Ok"
                           THEN try_to_u16(Head(frameChan).wide) ELSE w
                  IN  IF r = "Ok"
                      THEN /\ firstFrame' = << Head(frameChan) >>
                           /\ callerPc' = "loop"
                           /\ UNCHANGED result
                      ELSE /\ callerPc' = "failed"
                           /\ result' = r
                           /\ UNCHANGED firstFrame
       ELSE /\ ~FrameSendersAlive
            /\ callerPc' = "panicked"
            /\ result' = "panic"
            /\ UNCHANGED <<firstFrame, frameChan, sent>>
    /\ UNCHANGED <<samplerVars, poolVars, progVars, progChan, dispVars, sent,
                   buffer, currentFrame, written>>

\* sequence_gif, lines 233-258, for the frame the iterator returned: the
\* sequenced command is sent (a failed send is ignored), then try_to_u16
\* takes the frame's own width and height (lines 241-242) and the frame is
\* written (line 258); the first `?` that meets an Err returns it
WriteFrame(frame) ==
    /\ progChan' = IF progPc = "done" THEN progChan
                   ELSE Append(progChan, "IncrementSequenceProgress")
    /\ \E w \in WriteOutcomes :
          IF try_to_u16(frame.wide) # "Ok"
          THEN /\ callerPc' = "failed"
               /\ result' = try_to_u16(frame.wide)
               /\ UNCHANGED written
          ELSE IF w = "Ok"
          THEN /\ written' = Append(written, frame)
               /\ UNCHANGED callerVars
          ELSE /\ callerPc' = "failed"
               /\ result' = w
               /\ UNCHANGED written

\* OrderedFrameIter::next, lines 154-171 and 192: the wanted frame is in the
\* buffer
ordered_next_buffered ==
    /\ callerPc = "loop"
    /\ BufferIndex(buffer, currentFrame) # 0
    /\ LET i == BufferIndex(buffer, currentFrame)
       IN  /\ WriteFrame(buffer[i])
           /\ buffer' = Remove(buffer, i)
    /\ currentFrame' = currentFrame + 1
    /\ UNCHANGED <<samplerVars, poolVars, progVars, dispVars, frameChan, sent,
                   firstFrame>>

\* what the chain once(first_frame).chain(frame_receiver) yields next
ChainHead == IF firstFrame # <<>> THEN firstFrame[1] ELSE Head(frameChan)

\* OrderedFrameIter::next, lines 176-185 and 192: a frame is pulled from the
\* chain, and returned if it is the wanted one, buffered if not
ordered_next_pull ==
    /\ callerPc = "loop"
    /\ BufferIndex(buffer, currentFrame) = 0
    /\ firstFrame # <<>> \/ frameChan # <<>>
    /\ IF firstFrame # <<>>
       THEN firstFrame' = <<>> /\ UNCHANGED frameChan
       ELSE frameChan' = Tail(frameChan) /\ UNCHANGED firstFrame
    /\ IF IsNextFrame(ChainHead, currentFrame)
       THEN /\ WriteFrame(ChainHead)
            /\ currentFrame' = currentFrame + 1
            /\ UNCHANGED buffer
       ELSE /\ buffer' = Append(buffer, ChainHead)
            /\ UNCHANGED <<currentFrame, written, progChan, callerVars>>
    /\ UNCHANGED <<samplerVars, poolVars, progVars, dispVars, sent>>

\* OrderedFrameIter::next, lines 186-192, and sequence_gif's return: the
\* chain is exhausted, the loop ends and the call returns Ok
ordered_next_end ==
    /\ callerPc = "loop"
    /\ BufferIndex(buffer, currentFrame) = 0
    /\ firstFrame = <<>> /\ frameChan = <<>>
    /\ ~FrameSendersAlive
    /\ currentFrame' = currentFrame + 1
    /\ callerPc' = "returned"
    /\ result' = "Ok"
    /\ UNCHANGED <<samplerVars, poolVars, progVars, progChan, dispVars, frameChan, sent,
                   firstFrame, buffer, written>>

Next ==
    \/ \E c \in 1..Len(cfg) : configure_load(c)
    \/ \E c \in 1..Len(cfg) : configure_build(c)
    \/ \E c \in 1..Len(cfg) : configure_store(c)
    \/ convert_start
    \/ convert_new
    \/ progress_thread_start
    \/ progress_thread_step
    \/ progress_thread_done
    \/ png_raster_thread_start
    \/ png_raster_thread_pull
    \/ png_raster_thread_spawn
    \/ \E i \in 1..Len(tasks) : render_task_send(i)
    \/ \E i \in 1..Len(tasks) : render_task_fail(i)
    \/ \E i \in 1..Len(tasks) : render_task_progress(i)
    \/ sequence_gif_first
    \/ ordered_next_buffered
    \/ ordered_next_pull
    \/ ordered_next_end

Spec == Init /\ [][Next]_vars

\* the steps of the calling thread
CallerStep ==
    \/ \E c \in 1..Len(cfg) :
          configure_load(c) \/ configure_build(c) \/ configure_store(c)
    \/ convert_start
    \/ convert_new
    \/ sequence_gif_first
    \/ ordered_next_buffered
    \/ ordered_next_pull
    \/ ordered_next_end

\* the steps of the progress task
ProgressStep ==
    progress_thread_start \/ progress_thread_step \/ progress_thread_done

\* the steps of the dispatcher task
DispatcherStep ==
    png_raster_thread_start \/ png_raster_thread_pull \/ png_raster_thread_spawn

\* the steps of the rendering tasks other than a failure of the backend
RenderStep ==
    \E i \in 1..Len(tasks) : render_task_send(i) \/ render_task_progress(i)

\* The job under fair scheduling: the calling thread runs while it can, and
\* the pool runs a task while a worker is free; no rendering is bound to fail.
FairSpec ==
    /\ Init /\ [][Next]_vars
    /\ WF_vars(CallerStep)
    /\ WF_vars(ProgressStep)
    /\ WF_vars(DispatcherStep)
    /\ WF_vars(RenderStep)

(* ---------------- several calls in one process ------------------------ *)
\* most calls of convert_to_gif_with_progress in one process
MaxCalls == 4

\* The calls enter configure_thread_pool in any order, one after another or
\* at once.
PoolInit ==
    /\ src = [header |-> GoodHeader, lines |-> <<>>, interval |-> 1,
              tick |-> Second, wide |-> FALSE]
    /\ newResult = "unbuilt"
    /\ smp = SamplerInit(1, Second)
    /\ emitted = <<>>
    /\ done = FALSE
    /\ pool = 1
    /\ poolInitialized = FALSE /\ globalPool = FALSE
    /\ \E n \in 1..MaxCalls : cfg = [c \in 1..n |-> "call"]
    /\ PipelineIdle

PoolNext ==
    \/ \E c \in 1..Len(cfg) : configure_load(c)
    \/ \E c \in 1..Len(cfg) : configure_build(c)
    \/ \E c \in 1..Len(cfg) : configure_store(c)

PoolSpec == PoolInit /\ [][PoolNext]_vars

(* ------------- the sequencer on an arbitrary arrival order ------------ *)
\* most frames sent on the frame channel
MaxArrivals == 4
\* largest index of such a frame
MaxIndex == 3

\* Every rendering task has ended and the dispatcher with it: the frames they
\* sent wait in the channel, in any order, with any indices, each of a size
\* of its own, and the channel is closed.  A frame's timestamp is its index,
\* in ticks.
SequencerInit ==
    /\ src = [header |-> GoodHeader, lines |-> <<>>, interval |-> 1,
              tick |-> Second, wide |-> FALSE]
    /\ newResult = "Ok"
    /\ smp = SamplerInit(1, Second)
    /\ emitted = <<>>
    /\ done = FALSE
    /\ pool = 1
    /\ poolInitialized = FALSE /\ globalPool = TRUE /\ cfg = <<"done">>
    /\ callerPc = "recv_first" /\ result = "running"
    /\ progPc = "queued" /\ progChan = <<>>
    /\ progress = NoProgress /\ observed = NoProgress
    /\ dispPc = "done" /\ curFrame = NoFrame /\ tasks = <<>>
    /\ \E n \in 0..MaxArrivals :
          \E ix \in [1..n -> 0..MaxIndex], w \in [1..n -> BOOLEAN] :
             sent = [k \in 1..n |-> RgbaFrame(ix[k], ix[k], w[k])]
    /\ frameChan = sent
    /\ firstFrame = <<>> /\ buffer = <<>> /\ currentFrame = 0 /\ written = <<>>

SequencerNext ==
    \/ sequence_gif_first
    \/ ordered_next_buffered
    \/ ordered_next_pull
    \/ ordered_next_end

SequencerSpec == SequencerInit /\ [][SequencerNext]_vars

(* ====================== claims about the sampler ====================== *)
\* the snapshots next() has returned so far, in emission order
EmittedFrames ==
    LET oks == SelectSeq(emitted, LAMBDA e : e.item.kind = "Ok")
    IN  [k \in 1..Len(oks) |-> oks[k].item.frame]

\* the snapshots returned while exactly p lines had been read: those of line p
FramesOfLine(p) ==
    SelectSeq(emitted, LAMBDA e : e.item.kind = "Ok" /\ e.pos = p)

\* a run that reached end-of-sequence and met no error on the way
CompletedRun ==
    done /\ \A k \in 1..Len(emitted) : emitted[k].item.kind # "Err"

\* the positions of the "o" records of the recording
EventPositions ==
    { p \in 1..Len(src.lines) :
        src.lines[p].tag = "event" /\ src.lines[p].command = "o" }

\* p < q are consecutive real events: no real event lies between them
ConsecutiveEvents(p, q) ==
    /\ p \in EventPositions /\ q \in EventPositions /\ p < q
    /\ \A r \in EventPositions : ~(p < r /\ r < q)

\* the payloads of the first p lines, in order
RECURSIVE PayloadsUpTo(_, _)
PayloadsUpTo(lines, p) ==
    IF p = 0 THEN <<>>
    ELSE IF lines[p].tag = "event" /\ lines[p].command = "o"
         THEN Append(PayloadsUpTo(lines, p - 1), lines[p].output)
         ELSE PayloadsUpTo(lines, p - 1)

\* floor(dt / I) for dt = t - last, none if dt < I: dt is the f32 difference
\* of the f32 timestamps and dt / I the f32 quotient by the f32 interval
Due(t, last) ==
    LET f == FrameTimeDiffs[src.tick, src.interval, last, t]
    IN  IF f.ge THEN f.reps ELSE 0

\* the time of the last of the first p lines that produced a snapshot, 0 if none
RECURSIVE LastEmittedTime(_, _)
LastEmittedTime(lines, p) ==
    IF p = 0 THEN 0
    ELSE LET before == LastEmittedTime(lines, p - 1)
         IN  IF /\ lines[p].tag = "event" /\ lines[p].command = "o"
                /\ Due(lines[p].time, before) > 0
             THEN lines[p].time
             ELSE before

\* C2 (as claimed): a completed run that emitted N snapshots emitted the
\* indices 0, 1, ..., N-1, each once, in increasing order.
C2_IndexDensity ==
    CompletedRun =>
        \A k \in 1..Len(EmittedFrames) : EmittedFrames[k].index = k - 1

\* the event timestamps of the recording never go back
Chronological ==
    \A p \in EventPositions, q \in EventPositions :
        p < q => src.lines[p].time <= src.lines[q].time

\* C3 (as claimed): for consecutive real events at t1 < t2 the second one
\* yields floor((t2 - t1) / I) snapshots, none if t2 - t1 < I, whether or not
\* the first one produced a snapshot; the difference and the quotient are
\* those of f32, as the timestamps are.  Stated for the recordings whose
\* timestamps never go back, which the claim covers.
C3_GapFromPreviousEvent ==
    (CompletedRun /\ Chronological) =>
        \A p \in EventPositions, q \in EventPositions :
            (ConsecutiveEvents(p, q) /\ src.lines[p].time < src.lines[q].time) =>
                Len(FramesOfLine(q)) =
                    Due(src.lines[q].time, src.lines[p].time)

\* C3 (amended): every real event at time t yields floor(dt / I) snapshots,
\* none if dt < I, where dt = t - (time of the last event that produced a
\* snapshot, 0 if none) and dt, dt / I are the f32 difference and quotient of
\* the f32 timestamps; dt is the gap to the previous event exactly when that
\* event produced a snapshot.  The screen is updated by every event all the same.
C3_GapFromLastEmitted ==
    CompletedRun =>
        /\ \A q \in EventPositions :
              Len(FramesOfLine(q)) =
                  Due(src.lines[q].time, LastEmittedTime(src.lines, q - 1))
        /\ \A p \in EventPositions, q \in EventPositions :
              (ConsecutiveEvents(p, q) /\ FramesOfLine(p) # <<>>) =>
                  Len(FramesOfLine(q)) =
                      Due(src.lines[q].time, src.lines[p].time)
        /\ smp.screen = PayloadsUpTo(src.lines, Len(src.lines))

\* C3 witness: a completed run, on a recording timed in steps of 0.05 s, in
\* which an event that follows a discarded one yields two snapshots, and a
\* later event none.
C3_Witness ==
    /\ CompletedRun
    /\ src.tick = <<1, 20>>
    /\ \E p \in EventPositions, q \in EventPositions :
          /\ ConsecutiveEvents(p, q)
          /\ FramesOfLine(p) = <<>>
          /\ Len(FramesOfLine(q)) = 2
    /\ \E q \in EventPositions : q > 1 /\ FramesOfLine(q) = <<>>

\* C5: a header that parses and declares a version other than 2 makes new()
\* return InvalidVersion; no line after the header is read and no snapshot is
\* produced.
C5_VersionGate ==
    (src.header.tag = "meta" /\ src.header.version # 2 /\ newResult # "unbuilt") =>
        /\ newResult = "InvalidVersion"
        /\ smp.pos = 0
        /\ emitted = <<>>
        /\ ~ENABLED CallNext

\* C5 witness: a version-1 source with an event line after the header was refused.
C5_Witness ==
    /\ src.header = [tag |-> "meta", version |-> 1]
    /\ src.lines # <<>>
    /\ newResult = "InvalidVersion"

\* The recording of C7 in ticks of 0.05 s: events at 0 and 1, interval 2.
C7_Recording ==
    [header |-> GoodHeader,
     lines |-> << [tag |-> "event", time |-> 0, command |-> "o", output |-> "A"],
                  [tag |-> "event", time |-> 1, command |-> "o", output |-> "B"] >>,
     interval |-> 2, tick |-> <<1, 20>>, wide |-> FALSE]

\* C7 (as claimed): the recording yields exactly one snapshot, index 0,
\* timestamp 0.05, screen "AB".
C7_OneSnapshot ==
    (src = C7_Recording /\ done) =>
        EmittedFrames = << TerminalFrame(0, 1, <<"A", "B">>) >>

\* C7 (amended): the recording yields no snapshot; both events are discarded
\* (dt < I), the first request returns end-of-sequence, and the emulator screen
\* shows "AB".
C7_NoSnapshot ==
    (src = C7_Recording /\ done) =>
        /\ EmittedFrames = <<>>
        /\ Len(emitted) = 1
        /\ emitted[1].item = ItemNone
        /\ smp.screen = <<"A", "B">>
        /\ smp.pos = 2

\* C7 witness: the run on that recording has ended.
C7_Witness == src = C7_Recording /\ done

(* ===================== claims about the pipeline ====================== *)
\* the indices of a sequence of frames
Indices(frames) == [k \in 1..Len(frames) |-> frames[k].index]

\* the indices 0, 1, ..., n-1 in ascending order
Ascending(n) == [k \in 1..n |-> k - 1]

\* the frames are a permutation of an index-complete set: 0..N-1, each once
IndexComplete(frames) ==
    /\ \A k \in 1..Len(frames) : frames[k].index < Len(frames)
    /\ \A j \in 1..Len(frames), k \in 1..Len(frames) :
          frames[j].index = frames[k].index => j = k

\* the call has come to its end, one way or the other
CallEnded == callerPc \in {"returned", "failed", "panicked"}

\* every snapshot the sampler produced was rendered and its task has ended
AllRendered ==
    /\ dispPc = "done"
    /\ \A i \in 1..Len(tasks) : tasks[i].pc = "done"

\* C1 (as claimed): a job whose sampler produced N snapshots that all
\* rendered hands the encoder the N images 0..N-1, in ascending order.
C1_AllFramesInOrder ==
    (callerPc = "returned" /\ AllRendered) =>
        Indices(written) = Ascending(Len(tasks))

\* C4: a permutation of an index-complete set of N >= 1 images, arriving in
\* that order, is written in ascending index order, the same images, and the
\* loop then ends; until then what is written is the ascending prefix.
C4_Reassembly ==
    (IndexComplete(sent) /\ sent # <<>>) =>
        /\ callerPc # "panicked"
        /\ Indices(written) = Ascending(Len(written))
        /\ \A k \in 1..Len(written) : \E j \in 1..Len(sent) : sent[j] = written[k]
        /\ callerPc = "returned" => Len(written) = Len(sent)
        /\ (callerPc = "loop" /\ Len(written) = Len(sent)) => ENABLED ordered_next_end

\* C4 witness: three images arrived in the order 2, 0, 1 and all were written.
C4_Witness ==
    /\ Indices(sent) = <<2, 0, 1>>
    /\ callerPc = "returned"
    /\ Len(written) = 3

\* the recording holds a record whose kind is not "o"
HasUnsupportedEvent ==
    \E p \in 1..Len(src.lines) :
        src.lines[p].tag = "event" /\ src.lines[p].command # "o"

\* the call has returned an Err of sequence_gif: the image or the writer
ReturnedErr == result \in {"ImageError", "IoError"}

\* C6 (as claimed): a recording with a record of another kind than "o" makes
\* the call return the sampler's error (an Error::AsciinemaError), unless the
\* image or the writer made it fail before, and no frame reaches the encoder.
C6_UnsupportedEventFails ==
    (src.header = GoodHeader /\ HasUnsupportedEvent /\ CallEnded
        /\ ~ReturnedErr) =>
        /\ result = "AsciinemaError"
        /\ written = <<>>

\* C8 (as claimed): whatever the source, neither the calling thread nor the
\* dispatcher task ends by a panic.
C8_NoPanic ==
    /\ result # "panic"
    /\ callerPc # "panicked"
    /\ dispPc # "panicked"

\* b is a with the counter of cmd one more, the other two equal
OneMore(a, b, cmd) ==
    /\ b.count = a.count + (IF cmd = "IncrementCount" THEN 1 ELSE 0)
    /\ b.raster_progress =
          a.raster_progress + (IF cmd = "IncrementRasterProgress" THEN 1 ELSE 0)
    /\ b.sequence_progress =
          a.sequence_progress + (IF cmd = "IncrementSequenceProgress" THEN 1 ELSE 0)

\* C10: the handler first sees nothing but zeros; it is called once for each
\* command taken from the channel, with the counters after that command alone:
\* one counter one more than at the call before, the counter of that command.
C10_OneEventPerCall ==
    /\ observed = NoProgress
    /\ [][ /\ observed' # observed =>
                /\ progChan # <<>> /\ progChan' = Tail(progChan)
                /\ OneMore(observed, observed', Head(progChan))
           /\ Len(progChan') < Len(progChan) => observed' # observed
         ]_vars

\* C10 witness: the handler has seen each of the three counters move.
C10_Witness ==
    /\ observed.count >= 2
    /\ observed.raster_progress >= 1
    /\ observed.sequence_progress >= 1

(* ================== claims about the worker pool ====================== *)
\* C11 (as claimed): whatever the number and the timing of the calls, no call
\* fails or aborts in configure_thread_pool because the pool is built already.
C11_PoolInitIdempotent ==
    \A c \in 1..Len(cfg) : cfg[c] # "panicked"

(* ================== claims about failed renderings ==================== *)
\* C12 (as claimed): a call in which the rendering of some snapshot failed
\* does not return success; the failure reaches the caller.
C12_RenderFailureSurfaced ==
    (RenderFailures > 0 /\ CallEnded) => result # "Ok"

\* C13: under fair scheduling, once a rendering task has failed the call
\* does not wait for images forever: the image channel closes when the
\* dispatcher and every task have dropped their senders, and the call ends.
C13_ReassemblerNotBlocked ==
    [](RenderFailures > 0 => <>CallEnded)

\* a rendering failed, every sender is dropped, and the call has returned
C13_Witness ==
    /\ RenderFailures > 0
    /\ ~FrameSendersAlive
    /\ callerPc = "returned"

(* ================== claims about the sampler's stream ================== *)
\* the source holds the header and, after it, nothing but blank lines
HeaderOnly ==
    /\ src.header = GoodHeader
    /\ \A p \in 1..Len(src.lines) : src.lines[p].tag = "empty"

\* C14: on a source with a supported header and no event record the
\* construction succeeds and the first request returns end-of-sequence.
C14_HeaderOnlyEnds ==
    HeaderOnly =>
        /\ newResult \in {"unbuilt", "Ok"}
        /\ emitted # <<>> =>
              emitted = << [item |-> ItemNone, pos |-> Len(src.lines)] >>

\* the first request on a header-only source has been answered
C14_Witness ==
    /\ HeaderOnly
    /\ src.lines = <<>>
    /\ newResult = "Ok"
    /\ Len(emitted) = 1

\* C15 (as claimed): after the error for a malformed or unsupported record,
\* every further request yields end-of-sequence.
C15_EndsAfterError ==
    \A i \in 1..Len(emitted), j \in 1..Len(emitted) :
        ( /\ i < j
          /\ emitted[i].item.kind = "Err"
          /\ emitted[i].item.err \in {"ParseFrame", "UnsupportedCommand"} )
        => emitted[j].item.kind = "None"

\* the number of snapshots the event at line q is due: floor(dt / I) for
\* dt = t - (last emitted time when the line is read), none if dt < I
SnapshotsDue(q) ==
    Due(src.lines[q].time, LastEmittedTime(src.lines, q - 1))

\* C17: in every state of the sampler, last_frame_time is the time of the
\* last event read that produced a snapshot; an event read before the
\* current line has had exactly its floor(dt / I) snapshots emitted (none if
\* dt < I), dt and dt / I in f32 as the timestamps are; the event at the
\* current line has them emitted or queued, no line further on has any, and
\* the items come in the order of the lines.
C17_SnapshotsPerEvent ==
    newResult = "Ok" =>
        /\ smp.last_frame_time
              = LastEmittedTime(src.lines, smp.pos)
        /\ \A q \in EventPositions :
              /\ q < smp.pos => Len(FramesOfLine(q)) = SnapshotsDue(q)
              /\ q = smp.pos =>
                    Len(FramesOfLine(q)) + Len(smp.next_frames) = SnapshotsDue(q)
              /\ q > smp.pos => FramesOfLine(q) = <<>>
        /\ smp.next_frames # <<>> => smp.pos \in EventPositions
        /\ \A k \in 1..Len(emitted), l \in 1..Len(emitted) :
              k < l => emitted[k].pos <= emitted[l].pos

\* C17 witness: in a recording timed in steps of 0.3 s and sampled every
\* 0.3 s, an event due two or more snapshots has had them all emitted and a
\* later event, too close to it, was read and produced none.
C17_Witness ==
    /\ newResult = "Ok"
    /\ src.tick = <<3, 10>> /\ src.interval = 1
    /\ \E p \in EventPositions, q \in EventPositions :
          /\ p < q /\ q <= smp.pos
          /\ SnapshotsDue(p) >= 2
          /\ Len(FramesOfLine(p)) = SnapshotsDue(p)
          /\ SnapshotsDue(q) = 0
          /\ FramesOfLine(q) = <<>>

\* the items of `emitted` that are snapshots
OkItems == SelectSeq(emitted, LAMBDA e : e.item.kind = "Ok")

\* C18 (as claimed): an event with dt < I changes the screen only, so
\* next_index counts the snapshots emitted so far, and the first snapshot of
\* every event has the index that follows those emitted before it.
C18_DiscardKeepsIndex ==
    newResult = "Ok" =>
        /\ smp.next_index = Len(OkItems)
        /\ \A k \in 1..Len(OkItems) :
              (k = 1 \/ OkItems[k - 1].pos # OkItems[k].pos) =>
                  OkItems[k].item.frame.index = k - 1

\* C19 (as claimed): the j-th snapshot emitted for an event at time t, counted
\* from 0, has the index b + j (b the index of the first) and the time
\* t + j * I, and all of them show the screen as it is after the event.
C19_FillersInOrder ==
    newResult = "Ok" =>
        \A q \in EventPositions :
            LET fs == FramesOfLine(q)
            IN  \A j \in 1..Len(fs) :
                    /\ fs[j].item.frame.index = fs[1].item.frame.index + (j - 1)
                    /\ fs[j].item.frame.time
                          = src.lines[q].time + (j - 1) * src.interval
                    /\ fs[j].item.frame.screen = PayloadsUpTo(src.lines, q)

\* C20 (as claimed): when the event timestamps never go back, the snapshots
\* taken in index order have timestamps that never go back either, also from
\* the last filler of one event to the first snapshot of the next.
C20_TimesFollowIndices ==
    (newResult = "Ok" /\ Chronological) =>
        \A k \in 1..Len(EmittedFrames), l \in 1..Len(EmittedFrames) :
            EmittedFrames[k].index < EmittedFrames[l].index =>
                EmittedFrames[k].time <= EmittedFrames[l].time

(* ================== claims about duplicate indices ==================== *)
\* two of the images that arrived carry the same index
DuplicateArrived ==
    \E i \in 1..Len(sent), j \in 1..Len(sent) :
        i # j /\ sent[i].index = sent[j].index

\* C16 (as claimed): a call that was handed two images with the same index
\* fails; it neither writes the duplicate nor returns with it left in the
\* buffer.
C16_DuplicateIsFatal ==
    (DuplicateArrived /\ CallEnded) =>
        /\ result # "Ok"
        /\ callerPc = "returned" => buffer = <<>>

(* ================== claims about screens and skipped lines ============ *)
\* C21: the screen of every snapshot, emitted or queued as a filler, is the
\* emulator state after the payloads of all events up to and including the
\* event that triggered it, discarded events included; it stays so whatever
\* is processed later, and the emulator itself shows the payloads read so far.
C21_ScreenOfSnapshot ==
    newResult = "Ok" =>
        /\ \A k \in 1..Len(OkItems) :
              OkItems[k].item.frame.screen
                  = PayloadsUpTo(src.lines, OkItems[k].pos)
        /\ \A k \in 1..Len(smp.next_frames) :
              smp.next_frames[k].screen = PayloadsUpTo(src.lines, smp.pos)
        /\ smp.screen = PayloadsUpTo(src.lines, smp.pos)

\* C21 witness: a snapshot whose event followed a discarded one shows both
\* payloads, and a later event has changed the emulator since.
C21_Witness ==
    /\ newResult = "Ok"
    /\ \E k \in 1..Len(OkItems) :
          /\ \E p \in EventPositions :
                p < OkItems[k].pos /\ FramesOfLine(p) = <<>>
          /\ Len(OkItems[k].item.frame.screen) >= 2
          /\ OkItems[k].pos < smp.pos
          /\ smp.screen # OkItems[k].item.frame.screen

\* the line at position p is a record that does not parse, or one of another
\* kind than "o"
BadRecord(p) ==
    \/ src.lines[p].tag = "bad"
    \/ src.lines[p].tag = "event" /\ src.lines[p].command # "o"

\* the item is the error for a record that is malformed or of another kind
RecordError(item) ==
    item.kind = "Err" /\ item.err \in {"ParseFrame", "UnsupportedCommand"}

\* C22: every such record that is read yields an error naming its line, and
\* only such a record does; the call that reads just that record changes
\* nothing of the sampler but its place in the lines: the screen, next_index,
\* last_frame_time and the filler queue are as before, and no snapshot is
\* emitted for it.
C22_BadRecordHasNoEffect ==
    /\ newResult = "Ok" =>
          /\ \A k \in 1..Len(emitted) :
                RecordError(emitted[k].item) =>
                    /\ emitted[k].item.line = emitted[k].pos
                    /\ BadRecord(emitted[k].pos)
          /\ \A p \in 1..smp.pos :
                BadRecord(p) =>
                    /\ FramesOfLine(p) = <<>>
                    /\ \E k \in 1..Len(emitted) :
                          emitted[k].pos = p /\ RecordError(emitted[k].item)
    /\ [][ (newResult = "Ok" /\ smp'.pos = smp.pos + 1 /\ BadRecord(smp'.pos)) =>
               /\ smp' = [smp EXCEPT !.pos = @ + 1]
               /\ Len(emitted') = Len(emitted) + 1
               /\ RecordError(emitted'[Len(emitted')].item)
         ]_vars

\* C22 witness: the error for a record of another kind came right after a
\* snapshot, with the emulator and the counters in use.
C22_Witness ==
    /\ newResult = "Ok"
    /\ \E k \in 2..Len(emitted) :
          /\ emitted[k].item.err = "UnsupportedCommand"
          /\ emitted[k - 1].item.kind = "Ok"
          /\ smp.next_index > 0
          /\ smp.last_frame_time > 0

\* the lines without the empty ones
WithoutEmpty(lines) == SelectSeq(lines, LAMBDA l : l.tag # "empty")

\* next() called on the sampler in state st until it returns None: the
\* snapshots returned, and the state the sampler is left in
RECURSIVE RunToEnd(_, _, _)
RunToEnd(st, lines, frames) ==
    LET r == SamplerNext(st, lines)
    IN  IF r.item.kind = "None" THEN [st |-> r.st, frames |-> frames]
        ELSE RunToEnd(r.st, lines,
                      IF r.item.kind = "Ok" THEN Append(frames, r.item.frame)
                      ELSE frames)

\* C23: the snapshots emitted so far are the first ones of the run on the
\* same recording without its empty lines, and at end-of-sequence they are
\* all of them and the sampler's screen, last_frame_time, next_index and
\* filler queue are those of that run.
C23_EmptyLinesSkipped ==
    newResult = "Ok" =>
        LET other == RunToEnd(SamplerInit(src.interval, src.tick),
                              WithoutEmpty(src.lines), <<>>)
            n == Len(EmittedFrames)
        IN  /\ n <= Len(other.frames)
            /\ EmittedFrames = SubSeq(other.frames, 1, n)
            /\ done =>
                  /\ n = Len(other.frames)
                  /\ smp = [other.st EXCEPT !.pos = Len(src.lines)]

\* C23 witness: a finished run over an empty line that stands between two
\* events, each of which produced a snapshot.
C23_Witness ==
    /\ done
    /\ \E p \in 2..(Len(src.lines) - 1) :
          /\ src.lines[p].tag = "empty"
          /\ FramesOfLine(p - 1) # <<>>
          /\ FramesOfLine(p + 1) # <<>>

(* ================== claims about the dispatcher and its tasks ========= *)
\* how many commands of this kind were sent on the progress channel: those
\* the progress task has applied and those still in the channel
CountSent ==
    progress.count
    + Cardinality({ j \in 1..Len(progChan) : progChan[j] = "IncrementCount" })

RasterSent ==
    progress.raster_progress
    + Cardinality({ j \in 1..Len(progChan) :
                      progChan[j] = "IncrementRasterProgress" })

SequenceSent ==
    progress.sequence_progress
    + Cardinality({ j \in 1..Len(progChan) :
                      progChan[j] = "IncrementSequenceProgress" })

\* the tasks that have sent their image, and those that have sent their
\* rasterized command as well
ImageSentTasks == { i \in 1..Len(tasks) : tasks[i].pc \in {"sent", "done"} }
FinishedTasks == { i \in 1..Len(tasks) : tasks[i].pc = "done" }

\* C24: one count command per snapshot pulled, sent before its task is
\* submitted; one image per task that rendered and sent, and it is the image
\* of a submitted snapshot; one rasterized command per such task, sent after
\* its image; a task that has not rendered has sent neither, nor has one
\* whose send of the image failed, which it does only once the call has
\* returned an Err.
C24_PipelineOrder ==
    /\ CountSent = Len(tasks) + (IF dispPc = "spawn" THEN 1 ELSE 0)
    /\ Len(sent) = Cardinality(ImageSentTasks)
    /\ \A i \in ImageSentTasks :
          \E j \in 1..Len(sent) : sent[j] = render_frame_to_png(tasks[i].frame)
    /\ RasterSent = Cardinality(FinishedTasks)
    /\ FinishedTasks \subseteq ImageSentTasks
    /\ \A i \in 1..Len(tasks) :
          /\ tasks[i].pc \in {"queued", "sent", "done", "render_panicked",
                               "send_panicked"}
          /\ tasks[i].pc = "send_panicked" => callerPc = "failed"

\* C24 witness: two snapshots were pulled; the task of the first has finished
\* and the second is counted and not yet submitted.
C24_Witness ==
    /\ Len(tasks) = 1
    /\ FinishedTasks = {1}
    /\ RasterSent = 1
    /\ dispPc = "spawn"
    /\ CountSent = 2

\* C25: the dispatcher, once it runs, can always take its next step, whatever
\* the state of the tasks and of the channels; a task that a worker can take
\* up can always send its image, and one that has sent it can always send
\* its rasterized command.
C25_DispatcherNeverWaits ==
    /\ dispPc = "pull" => ENABLED png_raster_thread_pull
    /\ dispPc = "spawn" => ENABLED png_raster_thread_spawn
    /\ \A i \in 1..Len(tasks) :
          /\ (tasks[i].pc = "queued" /\ Busy < pool) => ENABLED render_task_send(i)
          /\ tasks[i].pc = "sent" => ENABLED render_task_progress(i)

\* C25 witness: the dispatcher has submitted both snapshots of the recording
\* and ended, and no task has rendered yet.
C25_Witness ==
    /\ dispPc = "done"
    /\ Len(tasks) = 2
    /\ \A i \in 1..Len(tasks) : tasks[i].pc = "queued"
    /\ sent = <<>>

\* how many of the images of the sequence carry this index
ImagesWithIndex(images, ix) ==
    Cardinality({ j \in 1..Len(images) : images[j].index = ix })

\* C26: every image sent carries the index and the time of a submitted
\* snapshot; a submitted snapshot has one image sent when its task has
\* rendered and sent, none before, and never two; the images in the channel
\* are among those.
C26_ImagesCarryIndexAndTime ==
    /\ \A j \in 1..Len(sent) :
          \E i \in 1..Len(tasks) :
              /\ sent[j].index = tasks[i].frame.index
              /\ sent[j].time = tasks[i].frame.time
    /\ \A i \in 1..Len(tasks) :
          /\ ImagesWithIndex(sent, tasks[i].frame.index)
                = (IF tasks[i].pc \in {"sent", "done"} THEN 1 ELSE 0)
          /\ ImagesWithIndex(frameChan, tasks[i].frame.index)
                <= ImagesWithIndex(sent, tasks[i].frame.index)
    /\ \A j \in 1..Len(frameChan) :
          \E k \in 1..Len(sent) : frameChan[j] = sent[k]

\* C26 witness: the images of two snapshots were sent, the later snapshot's
\* first, and are in the channel.
C26_Witness ==
    /\ Len(sent) = 2
    /\ sent[1].index > sent[2].index
    /\ sent[1].time > sent[2].time
    /\ frameChan = sent

(* ================== claims about the reassembler ====================== *)
\* C27 (as claimed): current_frame is the number of images the iterator has
\* returned so far, each of them written while no write has failed, also
\* after the request that returned end-of-sequence.
C27_NextWantedCountsReturned ==
    callerPc # "failed" => currentFrame = Len(written)

\* C28: whatever arrives on the image channel, with indices missing or
\* repeated, the images written so far carry the indices 0, 1, ..., k-1 in
\* this order, and each of them is an image that arrived.
C28_WrittenIsAscendingPrefix ==
    /\ \A k \in 1..Len(written) : written[k].index = k - 1
    /\ \A k \in 1..Len(written) : ImagesWithIndex(sent, written[k].index) >= 1

\* C28 witness: the arrivals repeat an index and leave a gap; the call has
\* returned with two images written and the others left in the buffer.
C28_Witness ==
    /\ callerPc = "returned"
    /\ DuplicateArrived
    /\ Len(written) = 2
    /\ \E i \in 1..Len(buffer) : buffer[i].index > Len(written)

(* ================== claims about termination and progress ============= *)
\* the recording has a supported header and only "o" records and empty lines
\* after it, and its run yields a snapshot
WellFormedWithSnapshot ==
    /\ src.header = GoodHeader
    /\ \A p \in 1..Len(src.lines) :
          \/ src.lines[p].tag = "empty"
          \/ src.lines[p].tag = "event" /\ src.lines[p].command = "o"
    /\ RunToEnd(SamplerInit(src.interval, src.tick), src.lines, <<>>).frames # <<>>

\* C29 (as claimed): under fair scheduling the call on such a recording
\* eventually ends, whatever the size of the pool.
C29_CallReturns ==
    WellFormedWithSnapshot => <>CallEnded

\* C30 (as claimed): in every progress the handler is given, the sequenced
\* counter is at most the rasterized counter.
C30_SequencedNotAhead ==
    observed.sequence_progress <= observed.raster_progress

(* ================== claims about the progress counters ================ *)
\* C31: whatever the handler is given, the rasterized counter and the
\* sequenced counter are at most the count: the count command of a frame is
\* in the channel before its task exists, hence before the two others.
C31_CountedFirst ==
    /\ observed.raster_progress <= observed.count
    /\ observed.sequence_progress <= observed.count

\* C31 witness: the handler has seen two frames counted, rasterized and
\* sequenced.
C31_Witness ==
    /\ observed.count = 2
    /\ observed.raster_progress = 2
    /\ observed.sequence_progress = 2

\* the counters the handler sees last in a job of n frames, as claimed
AllAt(n) == [count |-> n, raster_progress |-> n, sequence_progress |-> n]

\* C32 (as claimed): once the sampler has ended, every snapshot it produced
\* is rendered and the call has returned Ok, the handler is eventually given
\* count = rasterized = sequenced = N, N the number of snapshots, and
\* nothing else after it.
C32_FinalProgress ==
    []((AllRendered /\ result = "Ok") => <>[](observed = AllAt(Len(tasks))))

\* the calling thread, the dispatcher and every rendering task have dropped
\* their progress senders
AllProgressSendersDropped ==
    /\ callerPc \in {"returned", "failed", "panicked"}
    /\ dispPc \in {"done", "panicked"} \/ (dispPc = "none" /\ callerPc = "panicked")
    /\ \A i \in 1..Len(tasks) : tasks[i].pc \notin {"queued", "sent"}

\* C33: progress_thread has ended only if every sender is dropped and every
\* command sent was applied and reported; once it has ended it stays so and
\* the handler is not called again; and under fair scheduling it does end
\* once the senders are dropped.
C33_ProgressThreadEnds ==
    /\ [](progPc = "done" =>
              /\ AllProgressSendersDropped
              /\ progChan = <<>>
              /\ observed = progress)
    /\ [][ progPc = "done" =>
              /\ progPc' = "done"
              /\ observed' = observed
              /\ progChan' = progChan ]_vars
    /\ ((progPc \in {"queued", "running"} /\ AllProgressSendersDropped)
            ~> progPc = "done")

\* C33 witness: progress_thread has ended after it reported a frame counted,
\* rasterized and sequenced.
C33_Witness ==
    /\ progPc = "done"
    /\ observed.count >= 1
    /\ observed.raster_progress >= 1
    /\ observed.sequence_progress >= 1

\* the commands of ProgressCmd
ProgressCmds ==
    {"IncrementCount", "IncrementRasterProgress", "IncrementSequenceProgress"}

\* C34: the counters change only in the step of progress_thread that takes
\* one command from the channel, by that command; a step of the sampler, the
\* dispatcher, a rendering task or the sequencer leaves the counters and what
\* the handler saw alone, and the channel either alone or one command longer.
C34_SingleWriter ==
    [][ /\ progress' # progress =>
              /\ progPc = "running" /\ progPc' = "running"
              /\ progChan # <<>> /\ progChan' = Tail(progChan)
              /\ OneMore(progress, progress', Head(progChan))
              /\ UNCHANGED <<samplerVars, callerVars, dispVars, frameChan, seqVars>>
        /\ <<samplerVars, callerVars, dispVars, frameChan, seqVars>>'
              # <<samplerVars, callerVars, dispVars, frameChan, seqVars>> =>
              /\ progress' = progress
              /\ observed' = observed
              /\ \/ progChan' = progChan
                 \/ \E cmd \in ProgressCmds : progChan' = Append(progChan, cmd)
      ]_vars

\* C34 witness: the dispatcher's command is applied and those of the task and
\* of the sequencer are in the channel.
C34_Witness ==
    /\ progress = [count |-> 1, raster_progress |-> 0, sequence_progress |-> 0]
    /\ Len(progChan) = 2
    /\ \E j \in 1..2 : progChan[j] = "IncrementRasterProgress"
    /\ \E j \in 1..2 : progChan[j] = "IncrementSequenceProgress"

(* ================== claims about the first frame ====================== *)
\* C35: until the call returns an Err, which drops what it holds, the images
\* that arrived are, in their order of arrival, those the iterator has taken
\* (each of them now written or in the buffer, once) followed by the first
\* frame, if it is still set aside, and by what is in the channel; and the
\* image that arrived first is written, if at all, at the position of its
\* index, which it is when the arrivals are complete.
C35_FirstFrameKept ==
    LET taken == Len(written) + Len(buffer)
    IN  /\ callerPc # "failed" =>
              /\ taken + Len(firstFrame) + Len(frameChan) = Len(sent)
              /\ firstFrame \o frameChan = SubSeq(sent, taken + 1, Len(sent))
              /\ \A ix \in 0..MaxIndex :
                    ImagesWithIndex(written, ix) + ImagesWithIndex(buffer, ix)
                        = ImagesWithIndex(SubSeq(sent, 1, taken), ix)
        /\ sent # <<>> =>
              /\ \A k \in 1..Len(written) :
                    written[k] = sent[1] => k = sent[1].index + 1
              /\ (IndexComplete(sent) /\ callerPc = "returned") =>
                    written[sent[1].index + 1] = sent[1]

\* C35 witness: the image that arrived first has index 1; the call has
\* returned and wrote it second of three.
C35_Witness ==
    /\ Len(sent) = 3
    /\ IndexComplete(sent)
    /\ sent[1].index = 1
    /\ callerPc = "returned"
    /\ written[2] = sent[1]

====
